---- MODULE Spec2Model ----
(***************************************************************************)
(* Conversions between std::time::SystemTime and the protobuf well-known   *)
(* type Timestamp (protobuf/src/timestamp.rs).                             *)
(*                                                                         *)
(* The two conversions are pure functions.  They are modelled as the       *)
(* operators From (impl From<SystemTime> for Timestamp) and Into (impl     *)
(* Into<SystemTime> for Timestamp); the state machine draws an input       *)
(* value, applies the conversion that accepts it, and then applies the     *)
(* opposite conversion to the result.                                      *)
(*                                                                         *)
(* Widths.  The seconds field is an i64 and Duration::as_secs a u64; the   *)
(* model keeps the two's-complement structure but uses SecBits bits        *)
(* instead of 64.  Nanosecond values are the real ones (1_000_000_000 per  *)
(* second, i32 field), drawn from a set of sample values.                  *)
(*                                                                         *)
(* Build and platform.  Rust's arithmetic operators panic on overflow when *)
(* overflow checks are compiled in and wrap otherwise; `as` casts always   *)
(* wrap.  SystemTime is platform-defined: a signed seconds/nanoseconds     *)
(* pair with a 64-bit or a narrower seconds field, or (on targets without  *)
(* a clock of their own) a Duration since the epoch with u64 seconds.      *)
(* Both are chosen in Init.  A time point is written as its whole seconds  *)
(* since the epoch, rounded down, and the nanoseconds above them.          *)
(***************************************************************************)
EXTENDS Integers, Sequences, FiniteSets

VARIABLES
    overflow_checks,  \* TRUE: arithmetic overflow panics; FALSE: it wraps
    platform,         \* which SystemTime the target has
    hist,             \* the input value followed by each conversion's outcome
    wrapped           \* per conversion: the arithmetic that wrapped or panicked

vars == <<overflow_checks, platform, hist, wrapped>>

(* ------------------------------ bounds --------------------------------- *)

\* Width of the model's stand-in for the 64-bit integer types.
SecBits == 4

(* ----------------------------- constants ------------------------------- *)

NANOS_PER_SEC == 1000000000

I32Max == 2147483647

\* 2^64 mod 1_000_000_000: the sub-second part of the u64 modulus.
U64ModNanos == 709551616

(* --------------------------- integer types ----------------------------- *)

U64Modulus == 2 ^ SecBits
I64Min == -(2 ^ (SecBits - 1))
I64Max == 2 ^ (SecBits - 1) - 1
U64Max == U64Modulus - 1

\* Whole seconds of 2^64 nanoseconds: 18_446_744_073 for the real width, a
\* value well inside the signed range.  Reduced with the width, it stays
\* below I64Max.
U64ModSecs == 2 ^ (SecBits - 2)

I64 == I64Min .. I64Max

\* `x as i64` for a u64 x: reinterprets the bits, never panics.
AsI64(x) == IF x > I64Max THEN x - U64Modulus ELSE x

\* `x as u64` for an i64 x: reinterprets the bits, never panics.
AsU64(x) == IF x < 0 THEN x + U64Modulus ELSE x

\* `x as i32` for a u32 x.
AsI32(x) == IF x > I32Max THEN (x - I32Max) - I32Max - 2 ELSE x

\* `b as i64` for a bool b.
BoolAsI64(b) == IF b THEN 1 ELSE 0

\* Rust's % on signed integers: the remainder has the sign of the dividend.
RustRem(a, b) == IF a >= 0 THEN a % b ELSE -((-a) % b)

\* The value an i64 computation yields when it wraps.
WrapI64(x) == ((x - I64Min) % U64Modulus) + I64Min

(* ------------------------------ values --------------------------------- *)

Timestamp(s, n) == [kind |-> "Timestamp", secs |-> s, nanos |-> n, msg |-> ""]
SystemTime(s, n) == [kind |-> "SystemTime", secs |-> s, nanos |-> n, msg |-> ""]
Panic(m) == [kind |-> "panic", secs |-> 0, nanos |-> 0, msg |-> m]

UNIX_EPOCH == Timestamp(0, 0)
SystemTime_UNIX_EPOCH == SystemTime(0, 0)

Duration(s, n) == [secs |-> s, nanos |-> n]

(* -------------------- checked integer arithmetic ------------------------ *)

\* Unary minus on an i64: the value kept and whether the true result is
\* outside the type (only for the minimum value).
NegI64(x) == [val |-> WrapI64(-x), overflow |-> (-x) \notin I64]

\* a - b on i64.
SubI64(a, b) == [val |-> WrapI64(a - b), overflow |-> (a - b) \notin I64]

(* --------------------------- std::time::Duration ------------------------ *)

DurationFromSecs(s) == Duration(s, 0)

\* Duration::from_nanos(n as u64) for an i32 n.  The cast sign-extends: a
\* negative n becomes 2^64 + n.  from_nanos splits the u64 at NANOS_PER_SEC.
DurationFromNanos(n) ==
    IF n >= 0
    THEN Duration(n \div NANOS_PER_SEC, n % NANOS_PER_SEC)
    ELSE Duration(U64ModSecs + ((U64ModNanos + n) \div NANOS_PER_SEC),
                  (U64ModNanos + n) % NANOS_PER_SEC)

\* impl Add for Duration: checked_add(...).expect("overflow when adding durations")
DurationAdd(a, b) ==
    LET carry == IF a.nanos + b.nanos >= NANOS_PER_SEC THEN 1 ELSE 0
        secs  == a.secs + b.secs + carry
    IN  [ok |-> secs <= U64Max,
         d  |-> Duration(secs, a.nanos + b.nanos - carry * NANOS_PER_SEC)]

\* impl Sub for Duration: checked_sub(...).expect("overflow when subtracting durations")
DurationSub(a, b) ==
    LET borrow == IF a.nanos >= b.nanos THEN 0 ELSE 1
        secs   == a.secs - b.secs - borrow
    IN  [ok |-> secs >= 0,
         d  |-> Duration(secs, (a.nanos + borrow * NANOS_PER_SEC) - b.nanos)]

(* -------------------------- std::time::SystemTime ----------------------- *)

\* "time64": seconds are a signed integer of the full width; "time32": of a
\* narrower width; "duration": SystemTime is a Duration since the epoch.
Platforms == {"time64", "time32", "duration"}

\* The earliest and the latest whole second a SystemTime can hold.
TimeMin(p) ==
    CASE p = "time64" -> I64Min
      [] p = "time32" -> -(2 ^ (SecBits - 2))
      [] p = "duration" -> 0

TimeMax(p) ==
    CASE p = "time64" -> I64Max
      [] p = "time32" -> 2 ^ (SecBits - 2) - 1
      [] p = "duration" -> U64Max

\* Ordering of time points (and of Timestamps compared as (seconds, nanos)).
Before(a, b) == a.secs < b.secs \/ (a.secs = b.secs /\ a.nanos < b.nanos)

\* a - b for time points with b not after a.
SubTimespec(a, b) ==
    IF a.nanos >= b.nanos
    THEN Duration(a.secs - b.secs, a.nanos - b.nanos)
    ELSE Duration(a.secs - b.secs - 1, (a.nanos + NANOS_PER_SEC) - b.nanos)

\* SystemTime::duration_since: Ok(span) when earlier is not after time,
\* Err(e) with e.duration() the span the other way round otherwise.
DurationSince(time, earlier) ==
    IF ~Before(time, earlier)
    THEN [ok |-> TRUE, d |-> SubTimespec(time, earlier)]
    ELSE [ok |-> FALSE, d |-> SubTimespec(earlier, time)]

\* SystemTimeAdd with the range check lost: the sum wraps around the
\* platform's range.
SystemTimeAddWrapping(t, d, p) ==
    LET carry == IF t.nanos + d.nanos >= NANOS_PER_SEC THEN 1 ELSE 0
        secs  == t.secs + d.secs + carry
    IN  SystemTime(((secs - TimeMin(p)) % (TimeMax(p) - TimeMin(p) + 1)) + TimeMin(p),
                   t.nanos + d.nanos - carry * NANOS_PER_SEC)

\* impl Add<Duration> for SystemTime: panics when the sum is out of range.
SystemTimeAdd(t, d, p) ==
    LET carry == IF t.nanos + d.nanos >= NANOS_PER_SEC THEN 1 ELSE 0
        secs  == t.secs + d.secs + carry
    IN  IF secs > TimeMax(p)
        THEN Panic("overflow when adding duration to instant")
        ELSE SystemTime(secs, t.nanos + d.nanos - carry * NANOS_PER_SEC)

\* impl Sub<Duration> for SystemTime: panics when the result is out of range.
SystemTimeSub(t, d, p) ==
    LET borrow == IF t.nanos >= d.nanos THEN 0 ELSE 1
        secs   == t.secs - d.secs - borrow
    IN  IF secs < TimeMin(p)
        THEN Panic("overflow when subtracting duration from instant")
        ELSE SystemTime(secs, (t.nanos + borrow * NANOS_PER_SEC) - d.nanos)

(* ------------------- impl From<SystemTime> for Timestamp ---------------- *)

\* (before_epoch.subsec_nanos() != 0) as i64
BeforeEpochBorrow(before_epoch) == BoolAsI64(before_epoch.nanos # 0)

\* BeforeEpochNanos without the final % 1_000_000_000.
BeforeEpochNanosNoRem(before_epoch) ==
    NANOS_PER_SEC - AsI32(before_epoch.nanos)

\* (1_000_000_000 - before_epoch.subsec_nanos() as i32) % 1_000_000_000
BeforeEpochNanos(before_epoch) ==
    RustRem(NANOS_PER_SEC - AsI32(before_epoch.nanos), NANOS_PER_SEC)

\* Ok(since_epoch) => Timestamp { seconds: as_secs() as i64, nanos: subsec_nanos() as i32 }
SinceEpochTimestamp(since_epoch) ==
    Timestamp(AsI64(since_epoch.secs), AsI32(since_epoch.nanos))

\* Err(e) => Timestamp { seconds: -(as_secs() as i64) - borrow, nanos: ... }.
\* The field expressions are evaluated in order; an overflowing negation or
\* subtraction panics when overflow checks are on and wraps otherwise.
BeforeEpochTimestamp(before_epoch, checks) ==
    LET neg == NegI64(AsI64(before_epoch.secs))
        sub == SubI64(neg.val, BeforeEpochBorrow(before_epoch))
    IN  IF neg.overflow /\ checks THEN Panic("attempt to negate with overflow")
        ELSE IF sub.overflow /\ checks THEN Panic("attempt to subtract with overflow")
        ELSE Timestamp(sub.val, BeforeEpochNanos(before_epoch))

\* The arithmetic of the conversion whose true result was outside its type.
FromOverflows(time) ==
    LET r   == DurationSince(time, SystemTime_UNIX_EPOCH)
        neg == NegI64(AsI64(r.d.secs))
        sub == SubI64(neg.val, BeforeEpochBorrow(r.d))
    IN  (IF AsI64(r.d.secs) # r.d.secs THEN {"as i64"} ELSE {})
        \cup (IF ~r.ok /\ neg.overflow THEN {"negate"} ELSE {})
        \cup (IF ~r.ok /\ sub.overflow THEN {"subtract"} ELSE {})

\* Timestamp::from(time)
From(time, checks) ==
    LET r == DurationSince(time, SystemTime_UNIX_EPOCH)
    IN  IF r.ok THEN SinceEpochTimestamp(r.d)
        ELSE BeforeEpochTimestamp(r.d, checks)

(* ------------------- impl Into<SystemTime> for Timestamp ---------------- *)

\* self.seconds >= 0 arm
IntoNonNegative(self, p) ==
    LET duration == DurationAdd(DurationFromSecs(AsU64(self.secs)),
                                DurationFromNanos(self.nanos))
    IN  IF ~duration.ok THEN Panic("overflow when adding durations")
        ELSE SystemTimeAdd(SystemTime_UNIX_EPOCH, duration.d, p)

\* self.seconds < 0 arm
IntoNegative(self, checks, p) ==
    LET neg      == NegI64(self.secs)
        duration == DurationSub(DurationFromSecs(AsU64(neg.val)),
                                DurationFromNanos(self.nanos))
    IN  IF neg.overflow /\ checks THEN Panic("attempt to negate with overflow")
        ELSE IF ~duration.ok THEN Panic("overflow when subtracting durations")
        ELSE SystemTimeSub(SystemTime_UNIX_EPOCH, duration.d, p)

\* The arithmetic of the conversion whose true result was outside its type.
IntoOverflows(self) ==
    LET neg      == NegI64(self.secs)
        duration == DurationSub(DurationFromSecs(AsU64(neg.val)),
                                DurationFromNanos(self.nanos))
    IN  (IF self.secs < 0 /\ neg.overflow THEN {"negate"} ELSE {})
        \cup (IF self.secs < 0 /\ ~duration.ok THEN {"duration sub"} ELSE {})

\* Into::<SystemTime>::into(self)
Into(self, checks, p) ==
    IF self.secs >= 0 THEN IntoNonNegative(self, p)
    ELSE IntoNegative(self, checks, p)

(* ------------------------------- inputs -------------------------------- *)

\* Sub-second values of the inputs: the ends of the range, the values of the
\* repository's tests and their complements.
SubsecNanos == {0, 1, 200000000, 800000000, 999999999}

\* nanos values outside [0, NANOS_PER_SEC) that an i32 can hold.
MalformedNanos == {-1, -1000000000, -I32Max - 1, NANOS_PER_SEC, I32Max}

SystemTimes(p) ==
    {SystemTime(s, n) : s \in TimeMin(p) .. TimeMax(p), n \in SubsecNanos}

Timestamps ==
    {Timestamp(s, n) : s \in I64, n \in SubsecNanos \cup MalformedNanos}

(* ---------------------------- state machine ---------------------------- *)

Last == hist[Len(hist)]

Init ==
    /\ overflow_checks \in BOOLEAN
    /\ platform \in Platforms
    /\ \E v \in SystemTimes(platform) \cup Timestamps : hist = <<v>>
    /\ wrapped = <<>>

\* A caller converts the time point it holds: Timestamp::from(system_time).
FromSystemTime ==
    /\ Len(hist) < 3
    /\ Last.kind = "SystemTime"
    /\ hist' = Append(hist, From(Last, overflow_checks))
    /\ wrapped' = Append(wrapped, FromOverflows(Last))
    /\ UNCHANGED <<overflow_checks, platform>>

\* A caller converts the Timestamp it holds: timestamp.into().
IntoSystemTime ==
    /\ Len(hist) < 3
    /\ Last.kind = "Timestamp"
    /\ hist' = Append(hist, Into(Last, overflow_checks, platform))
    /\ wrapped' = Append(wrapped, IntoOverflows(Last))
    /\ UNCHANGED <<overflow_checks, platform>>

Next == FromSystemTime \/ IntoSystemTime

Spec == Init /\ [][Next]_vars

TypeOK ==
    /\ overflow_checks \in BOOLEAN
    /\ platform \in Platforms
    /\ Len(hist) \in 1 .. 3
    /\ Len(wrapped) = Len(hist) - 1
    /\ \A i \in 1 .. Len(hist) : hist[i].kind \in {"SystemTime", "Timestamp", "panic"}

(* ------------------------- vocabulary of the claims --------------------- *)

\* hist[i] is the outcome of Timestamp::from applied to hist[i-1].
Encoded(i) == i \in 2 .. Len(hist) /\ hist[i - 1].kind = "SystemTime"

\* hist[i] is the outcome of Into::<SystemTime>::into applied to hist[i-1].
Decoded(i) == i \in 2 .. Len(hist) /\ hist[i - 1].kind = "Timestamp"

\* nanos is in [0, 1_000_000_000).
Canonical(ts) == 0 <= ts.nanos /\ ts.nanos < NANOS_PER_SEC

\* The instant's whole seconds (rounded down) fit the Timestamp's seconds field.
InTimestampRange(x) == x.secs \in I64

\* The instant's whole seconds (rounded down) fit the platform's SystemTime.
InPlatformRange(x) == x.secs \in TimeMin(platform) .. TimeMax(platform)

\* The pair the borrow rule prescribes for an offset: r.ok says the time point
\* is at or after the epoch, r.d is the magnitude of the offset.
BorrowRule(r) ==
    IF r.ok THEN Timestamp(r.d.secs, r.d.nanos)
    ELSE IF r.d.nanos = 0 THEN Timestamp(-r.d.secs, 0)
    ELSE Timestamp(-r.d.secs - 1, NANOS_PER_SEC - r.d.nanos)

\* The literal cases of test::from_system_time, as <<Timestamp, SystemTime>>.
TestCases ==
    { <<UNIX_EPOCH, SystemTime_UNIX_EPOCH>>,
      <<Timestamp(0, 200000000), SystemTime(0, 200000000)>>,
      <<Timestamp(3, 200000000), SystemTime(3, 200000000)>>,
      <<Timestamp(-1, 800000000), SystemTime(-1, 800000000)>>,
      <<Timestamp(-4, 800000000), SystemTime(-4, 800000000)>> }

(* -------------------------------- claims ------------------------------- *)

\* C1: every Timestamp the encoder produces has 0 <= nanos < 1_000_000_000,
\* whether the time point is at/after the epoch or before it.
C1_EncodedNanosInRange ==
    \A i \in 2 .. Len(hist) :
        (Encoded(i) /\ hist[i].kind = "Timestamp") => Canonical(hist[i])

\* C1 witness: a time point a whole number of seconds before the epoch has
\* been encoded (the case where 1_000_000_000 - subsec_nanos is 1_000_000_000).
C1_Witness ==
    /\ Len(hist) >= 2
    /\ hist[1].kind = "SystemTime" /\ hist[1].secs < 0 /\ hist[1].nanos = 0
    /\ hist[2].kind = "Timestamp" /\ hist[2].nanos = 0

\* C2: decoding the encoder's output gives back the time point: for every
\* time point t inside the Timestamp range that the encoder converted,
\* decode(encode(t)) = t.
C2_RoundTripTime ==
    (/\ Len(hist) = 3
     /\ hist[1].kind = "SystemTime" /\ InTimestampRange(hist[1])
     /\ hist[2].kind = "Timestamp")
    => hist[3] = hist[1]

\* C3: for every canonical Timestamp whose instant the platform's SystemTime
\* can hold, the decoder returns a time point and encoding it gives back the
\* same pair.
C3_RoundTripTimestamp ==
    (/\ hist[1].kind = "Timestamp" /\ Canonical(hist[1])
     /\ InPlatformRange(hist[1]))
    => /\ Len(hist) >= 2 => hist[2].kind = "SystemTime"
       /\ Len(hist) = 3 => hist[3] = hist[1]

\* C4: for every time point the encoder converts, the result {seconds, nanos}
\* is the floor decomposition of the time point's signed offset from the
\* epoch: with the offset given as sign and magnitude d,
\* seconds * 1e9 + nanos = sign * (d.secs * 1e9 + d.nanos), and nanos is in
\* [0, 1e9) (which makes the pair unique).  The equation is checked as
\* (seconds - sign * d.secs) * 1e9 = sign * d.nanos - nanos, whose left factor
\* is 0 or -1 for a floor decomposition.
C4_FloorDecomposition ==
    \A i \in 2 .. Len(hist) :
        (Encoded(i) /\ hist[i].kind = "Timestamp")
        => LET r    == DurationSince(hist[i - 1], SystemTime_UNIX_EPOCH)
               sign == IF r.ok THEN 1 ELSE -1
               k    == hist[i].secs - sign * r.d.secs
           IN  /\ Canonical(hist[i])
               /\ k \in {-1, 0}
               /\ k * NANOS_PER_SEC = sign * r.d.nanos - hist[i].nanos

\* The part of C4 that holds: the same statement for the time points whose
\* whole seconds fit the Timestamp's seconds field.
FloorDecompositionInRange ==
    \A i \in 2 .. Len(hist) :
        (Encoded(i) /\ InTimestampRange(hist[i - 1]) /\ hist[i].kind = "Timestamp")
        => LET r    == DurationSince(hist[i - 1], SystemTime_UNIX_EPOCH)
               sign == IF r.ok THEN 1 ELSE -1
               k    == hist[i].secs - sign * r.d.secs
           IN  /\ Canonical(hist[i])
               /\ k \in {-1, 0}
               /\ k * NANOS_PER_SEC = sign * r.d.nanos - hist[i].nanos

\* C5: decoding a Timestamp whose nanos is outside [0, 1_000_000_000) fails
\* (panics) and never returns a time point.
C5_MalformedRejected ==
    \A i \in 2 .. Len(hist) :
        (Decoded(i) /\ ~Canonical(hist[i - 1])) => hist[i].kind = "panic"

\* C6: when the whole-second distance of a time point from the epoch does not
\* fit a signed 64-bit value, the encoder fails (panics) and returns no
\* Timestamp.
C6_EncoderRangeChecked ==
    \A i \in 2 .. Len(hist) :
        (/\ Encoded(i)
         /\ DurationSince(hist[i - 1], SystemTime_UNIX_EPOCH).d.secs > I64Max)
        => hist[i].kind = "panic"

\* C7: when a Timestamp with nanos in [0, 1e9) denotes an instant outside the
\* range of the platform's SystemTime, the decoder fails (panics); it returns
\* no clamped or wrapped-around time point.
C7_DecoderRangeChecked ==
    \A i \in 2 .. Len(hist) :
        (Decoded(i) /\ Canonical(hist[i - 1]) /\ ~InPlatformRange(hist[i - 1]))
        => hist[i].kind = "panic"

\* C7 witness: a canonical Timestamp later than the latest SystemTime of the
\* platform has been decoded.
C7_Witness ==
    /\ Len(hist) >= 2
    /\ hist[1].kind = "Timestamp" /\ Canonical(hist[1])
    /\ hist[1].secs > TimeMax(platform)
    /\ hist[2].kind = "panic"

\* C8: encoder and decoder agree, in both directions, on the borrow rule.
\* The encoder turns a time point into the pair the rule gives for its offset;
\* the decoder turns a canonical Timestamp that the platform's SystemTime can
\* hold into a time point for whose offset the rule gives that Timestamp; and
\* the five literal cases of the test convert as listed, both ways.
C8_BorrowRule ==
    \A i \in 2 .. Len(hist) :
        /\ Encoded(i)
           => hist[i] = BorrowRule(DurationSince(hist[i - 1], SystemTime_UNIX_EPOCH))
        /\ (Decoded(i) /\ Canonical(hist[i - 1]) /\ InPlatformRange(hist[i - 1]))
           => /\ hist[i].kind = "SystemTime"
              /\ hist[i - 1] = BorrowRule(DurationSince(hist[i], SystemTime_UNIX_EPOCH))
        /\ \A c \in TestCases :
              /\ (Encoded(i) /\ hist[i - 1] = c[2]) => hist[i] = c[1]
              /\ (Decoded(i) /\ hist[i - 1] = c[1] /\ InPlatformRange(c[2]))
                 => hist[i] = c[2]

\* The part of C8 that holds: whatever either conversion returns follows the
\* borrow rule (for time points inside the Timestamp range), and the five
\* literal cases convert as listed, both ways.
BorrowRuleWhenReturned ==
    \A i \in 2 .. Len(hist) :
        /\ (Encoded(i) /\ InTimestampRange(hist[i - 1]) /\ hist[i].kind = "Timestamp")
           => hist[i] = BorrowRule(DurationSince(hist[i - 1], SystemTime_UNIX_EPOCH))
        /\ (Decoded(i) /\ Canonical(hist[i - 1]) /\ hist[i].kind = "SystemTime")
           => hist[i - 1] = BorrowRule(DurationSince(hist[i], SystemTime_UNIX_EPOCH))
        /\ \A c \in TestCases :
              /\ (Encoded(i) /\ hist[i - 1] = c[2]) => hist[i] = c[1]
              /\ (Decoded(i) /\ hist[i - 1] = c[1] /\ InPlatformRange(c[2]))
                 => hist[i] = c[2]

\* C9: in the decoder's seconds < 0 branch, for every Timestamp with nanos in
\* [0, 1e9), computing |seconds| does not overflow and the Duration
\* subtraction does not underflow.
C9_NegativeBranchWellDefined ==
    \A i \in 2 .. Len(hist) :
        (Decoded(i) /\ hist[i - 1].secs < 0 /\ Canonical(hist[i - 1]))
        => wrapped[i - 1] = {}

\* C10: the encoder preserves order.  For the encoded time point t1 and any
\* other time point t2 of the platform that the encoder converts, t1 < t2
\* exactly when encode(t1) is smaller than encode(t2) compared as
\* (seconds, nanos); so distinct time points get distinct Timestamps.
C10_OrderPreserved ==
    \A i \in 2 .. Len(hist) :
        (Encoded(i) /\ hist[i].kind = "Timestamp")
        => \A t2 \in SystemTimes(platform) :
              LET e2 == From(t2, overflow_checks)
              IN  e2.kind = "Timestamp"
                  => /\ Before(hist[i - 1], t2) <=> Before(hist[i], e2)
                     /\ (hist[i] = e2) => (hist[i - 1] = t2)

\* The part of C10 that holds: the same statement for two time points whose
\* whole seconds fit the Timestamp's seconds field.
OrderPreservedInRange ==
    \A i \in 2 .. Len(hist) :
        (Encoded(i) /\ InTimestampRange(hist[i - 1]) /\ hist[i].kind = "Timestamp")
        => \A t2 \in SystemTimes(platform) :
              LET e2 == From(t2, overflow_checks)
              IN  (InTimestampRange(t2) /\ e2.kind = "Timestamp")
                  => /\ Before(hist[i - 1], t2) <=> Before(hist[i], e2)
                     /\ (hist[i] = e2) => (hist[i - 1] = t2)

====
